---- MODULE Spec2Model ----
(***************************************************************************)
(* TuRifa-Online, src/app.py: a Flask application over one table of        *)
(* tickets (Boleto).  Three endpoints (get_boletos, reservar_boleto,       *)
(* comprar_boleto) and one helper (liberar_reservas_expiradas) read rows   *)
(* into ORM objects, change them and commit.  A read and the commit that   *)
(* follows it are separate database statements, so the requests of         *)
(* different workers interleave between them; a commit writes the          *)
(* columns of the rows the request loaded, whatever those rows hold by     *)
(* then.  The wall clock (time.time()) advances between any two steps.     *)
(***************************************************************************)
EXTENDS Integers, Sequences, FiniteSets, TLC

\* ---------------------------------------------------------------- bounds
NumBoletos == 2      \* rows of the table (the program inserts 200)
NumProcs   == 2      \* requests that may be in flight together
MaxTicks   == 3      \* clock advances in one behaviour
StartTime  == 1      \* the clock when the server starts

\* ------------------------------------------------------ program constants
RESERVA_DURACION_SEGUNDOS == 30

Procs == 1 .. NumProcs
Ids   == 1 .. NumBoletos

\* The clock advances by one second or by one whole hold duration.
TickSteps == {1, RESERVA_DURACION_SEGUNDOS}

\* f'A{i}': the seat name of the i-th inserted row.
Asiento(i) == <<"A", i>>

\* A name no row carries.
Desconocido == <<"Z", 99>>

\* The seat names a request may carry in its URL.
Nombres == {Asiento(i) : i \in Ids} \cup {Desconocido}

\* class Boleto: one row.
Boleto(i, nombre, est, lim) ==
    [id |-> i, asiento |-> nombre, estado |-> est, tiempo_limite |-> lim]

\* Variant: every inserted row carries the name of the first.
TablaInicial_repetida == [i \in Ids |-> Boleto(i, Asiento(1), "DISPONIBLE", 0)]
\* The table after the initialisation block: A1..An, DISPONIBLE, limit 0.
TablaInicial == [i \in Ids |-> Boleto(i, Asiento(i), "DISPONIBLE", 0)]

\* Boleto.to_dict: id, asiento and estado; tiempo_limite is not sent.
to_dict(b) == [id |-> b.id, asiento |-> b.asiento, estado |-> b.estado]

VARIABLES
    db,      \* the table: id -> row
    now,     \* int(time.time())
    ticks,   \* clock advances so far
    pc,      \* per request slot: position in its handler
    req,     \* per request slot: the handler's locals
    resp,    \* per request slot: the response being returned
    serie,   \* TRUE when requests are served one at a time (fixed at start)
    fallas,  \* TRUE when a commit may fail (fixed at start)
    rastro,  \* TRUE when the holder of each row is recorded (fixed at start)
    titular  \* history: per row, the slot whose reserve made the hold it is
             \* under, 0 when it is under none

vars == <<db, now, ticks, pc, req, resp, serie, fallas, rastro, titular>>

\* ------------------------------------------------------------- the queries

Min(S) == CHOOSE x \in S : \A y \in S : x <= y

\* Variants: a limit equal to the clock counts as passed; a limit counts as
\* passed only a whole hold duration late.
Expirado_le(b, ahora) == b.estado = "RESERVADO" /\ b.tiempo_limite <= ahora
Expirado_nunca(b, ahora) == b.estado = "RESERVADO" /\ b.tiempo_limite + RESERVA_DURACION_SEGUNDOS < ahora
\* The filter of liberar_reservas_expiradas.
Expirado(b, ahora) == b.estado = "RESERVADO" /\ b.tiempo_limite < ahora

\* Variant: the query selects nothing.
boletos_expirados_ninguno(tabla, ahora) == {}
\* Variant: the query loads only the first row the filter selects.
boletos_expirados_primero(tabla, ahora) ==
    LET sel == {j \in DOMAIN tabla : Expirado(tabla[j], ahora)}
    IN IF sel = {} THEN {} ELSE {tabla[Min(sel)]}
\* Boleto.query.filter(...).all(): the rows the filter selects, as loaded.
boletos_expirados(tabla, ahora) == {tabla[i] : i \in {j \in DOMAIN tabla : Expirado(tabla[j], ahora)}}

\* Variant: an unknown name falls back to the first row.
first_otro(tabla, nombre) ==
    IF \E i \in DOMAIN tabla : tabla[i].asiento = nombre
    THEN Min({i \in DOMAIN tabla : tabla[i].asiento = nombre})
    ELSE Min(DOMAIN tabla)
\* Boleto.query.filter_by(asiento=nombre).first(): 0 stands for None.
first(tabla, nombre) ==
    IF \E i \in DOMAIN tabla : tabla[i].asiento = nombre
    THEN Min({i \in DOMAIN tabla : tabla[i].asiento = nombre})
    ELSE 0

\* ------------------------------------------------------------- the writes

\* db.session.commit(): the UPDATE of one loaded object.  It sets the columns
\* whose value differs from the value loaded, in the row with the object's id,
\* and leaves the row's other columns as they are in the table.
Flush(fila, cargado, nuevo) ==
    [fila EXCEPT
       !.estado = IF nuevo.estado # cargado.estado THEN nuevo.estado ELSE @,
       !.tiempo_limite = IF nuevo.tiempo_limite # cargado.tiempo_limite
                         THEN nuevo.tiempo_limite ELSE @]

\* Variant: the failed transaction leaves the estado it had flushed.
rollback_parcial(tabla, pendiente) ==
    [i \in DOMAIN tabla |-> [tabla[i] EXCEPT !.estado = pendiente[i].estado]]
\* A commit that fails: tabla is the stored table, pendiente the table as the
\* flush would have left it.  The transaction is rolled back (by
\* db.session.rollback() in the two handlers, by the removal of the session
\* when the sweep's exception leaves the handler) and nothing of it is stored.
rollback(tabla, pendiente) == tabla

\* Variant: the release clears the limit and leaves the estado.
Liberado_solo_limite(b) == [b EXCEPT !.tiempo_limite = 0]
\* liberar_reservas_expiradas, loop body.
Liberado(b) == [b EXCEPT !.estado = "DISPONIBLE", !.tiempo_limite = 0]

\* reservar_boleto: the limit of a reservation made when the clock reads t.
limite_de_reserva(t) == t + RESERVA_DURACION_SEGUNDOS

\* reservar_boleto: the two assignments.
Reservado(b, lim) == [b EXCEPT !.estado = "RESERVADO", !.tiempo_limite = lim]

\* Variant: the sale leaves the limit in place.
Vendido_sin_limpiar(b) == [b EXCEPT !.estado = "VENDIDO"]
\* comprar_boleto: the two assignments.
Vendido(b) == [b EXCEPT !.estado = "VENDIDO", !.tiempo_limite = 0]

\* Variant: a held seat may be reserved again.
reservable_o_reservado(b) == b.estado \in {"DISPONIBLE", "RESERVADO"}
\* reservar_boleto: the test that lets a reservation proceed.
reservable(b) == b.estado = "DISPONIBLE"

\* Variant: the sale also requires the limit not to have passed at t.
comprable_vigente(b, t) == b.estado = "RESERVADO" /\ b.tiempo_limite >= t
\* Variant: the sale requires only that the seat is not sold.
comprable_no_vendido(b, t) == b.estado # "VENDIDO"
\* comprar_boleto: the test that lets a sale proceed (the time t is unused).
comprable(b, t) == b.estado = "RESERVADO"

\* ------------------------------------------------------- request records

\* No row loaded.
Ninguno == Boleto(0, Desconocido, "", 0)

\* The locals of a handler.  antes, llegada, ahora, t_reserva and vistos are
\* history: the table and the clock when the request arrived, the two clock
\* readings of the handler and the rows a listing read.  They are recorded
\* when requests are served one at a time (t_reserva always: it is the
\* pending limit less the hold duration).
SinPeticion ==
    [op |-> "ninguna", nombre |-> Desconocido, ahora |-> 0, expirados |-> {},
     boleto |-> Ninguno, t_reserva |-> 0, tiempo_limite |-> 0,
     llegada |-> 0, antes |-> <<>>, vistos |-> <<>>, titular |-> 0]

Peticion(operacion, nombre) ==
    [SinPeticion EXCEPT !.op = operacion, !.nombre = nombre,
                        !.llegada = IF serie THEN now ELSE 0,
                        !.antes = IF serie THEN db ELSE <<>>]

SinRespuesta == [code |-> 0, estado |-> "", boletos |-> <<>>]

Respuesta(c, est) == [code |-> c, estado |-> est, boletos |-> <<>>]

Arranque(s, f, r) ==
    /\ db = TablaInicial
    /\ now = StartTime
    /\ ticks = 0
    /\ pc = [p \in Procs |-> "idle"]
    /\ req = [p \in Procs |-> SinPeticion]
    /\ resp = [p \in Procs |-> SinRespuesta]
    /\ serie = s
    /\ fallas = f
    /\ rastro = r
    /\ titular = [i \in Ids |-> 0]

\* The storage never fails.
Inicio(s) == Arranque(s, FALSE, FALSE)

\* The server as deployed: the requests of several workers interleave.
Init == Inicio(FALSE)

\* The server with requests served one at a time.
SerialInit == Inicio(TRUE)

\* Requests served one at a time over a storage whose commits may fail.
FallaInit == Arranque(TRUE, TRUE, FALSE)

\* Requests served one at a time, each slot one client, the holder recorded.
TitularInit == Arranque(FALSE, FALSE, TRUE)

\* time.time() advances.
Tick ==
    /\ ticks < MaxTicks
    /\ \E dt \in TickSteps : now' = now + dt
    /\ ticks' = ticks + 1
    /\ UNCHANGED <<db, pc, req, resp, serie, fallas, rastro, titular>>

\* No other request is in flight.
Solo(p) == \A q \in Procs \ {p} : pc[q] = "idle"

\* A request may arrive at slot p.
Admite(p) == pc[p] = "idle" /\ ((serie \/ rastro) => Solo(p))

\* liberar_reservas_expiradas, lines 64-77: read the clock, run the query.
\* With nothing selected the function returns without a commit.
Liberar(p, operacion, nombre, sigue) ==
    /\ Admite(p)
    /\ LET sel == boletos_expirados(db, now) IN
         /\ req' = [req EXCEPT ![p] =
                      [Peticion(operacion, nombre) EXCEPT
                         !.ahora = IF serie THEN now ELSE 0,
                         !.expirados = sel]]
         /\ pc' = [pc EXCEPT ![p] = IF sel = {} THEN sigue ELSE "liberar_commit"]
    /\ UNCHANGED <<db, now, ticks, resp, serie, fallas, rastro, titular>>

\* liberar_reservas_expiradas, lines 74-80: the loaded rows are set to
\* DISPONIBLE with limit 0 and flushed.
\* A commit that fails raises out of the function and of the handler that
\* called it: the request ends with status 500.
LiberarCommit(p) ==
    /\ pc[p] = "liberar_commit"
    /\ LET pendiente == [i \in Ids |->
                IF \E b \in req[p].expirados : b.id = i
                THEN LET b == CHOOSE c \in req[p].expirados : c.id = i
                     IN Flush(db[i], b, Liberado(b))
                ELSE db[i]]
       IN
         \/ /\ db' = pendiente
            /\ req' = [req EXCEPT ![p].expirados = {}]
            /\ pc' = [pc EXCEPT ![p] = IF req[p].op = "get_boletos" THEN "listar" ELSE "consultar"]
            /\ titular' = [i \in Ids |->
                              IF rastro /\ \E b \in req[p].expirados : b.id = i
                              THEN 0 ELSE titular[i]]
            /\ UNCHANGED resp
         \/ /\ fallas
            /\ db' = rollback(db, pendiente)
            /\ resp' = [resp EXCEPT ![p] = Respuesta(500, "")]
            /\ pc' = [pc EXCEPT ![p] = "done"]
            /\ UNCHANGED <<req, titular>>
    /\ UNCHANGED <<now, ticks, serie, fallas, rastro>>

\* get_boletos, line 88.
GetBoletosInicio(p) == Liberar(p, "get_boletos", Desconocido, "listar")

\* get_boletos, lines 91-92.
GetBoletosListar(p) ==
    /\ pc[p] = "listar"
    /\ req' = [req EXCEPT ![p].vistos = IF serie THEN db ELSE <<>>]
    /\ resp' = [resp EXCEPT ![p] =
                  [code |-> 200, estado |-> "", boletos |-> [i \in Ids |-> to_dict(db[i])]]]
    /\ pc' = [pc EXCEPT ![p] = "done"]
    /\ UNCHANGED <<db, now, ticks, serie, fallas, rastro, titular>>

\* reservar_boleto, line 99.
ReservarInicio(p, nombre) == Liberar(p, "reservar", nombre, "consultar")

\* reservar_boleto, lines 100-113 and 127-132: load the row, test it, and
\* on DISPONIBLE read the clock again and set the two attributes.
ReservarConsultar(p) ==
    /\ pc[p] = "consultar"
    /\ LET i == first(db, req[p].nombre) IN
         IF i = 0
         THEN /\ resp' = [resp EXCEPT ![p] = Respuesta(404, "")]
              /\ pc' = [pc EXCEPT ![p] = "done"]
              /\ UNCHANGED req
         ELSE IF reservable(db[i])
         THEN /\ req' = [req EXCEPT ![p].boleto = db[i],
                                    ![p].t_reserva = now,
                                    ![p].tiempo_limite = limite_de_reserva(now)]
              /\ pc' = [pc EXCEPT ![p] = "reservar_commit"]
              /\ UNCHANGED resp
         ELSE /\ req' = [req EXCEPT ![p].boleto = db[i]]
              /\ resp' = [resp EXCEPT ![p] = Respuesta(409, db[i].estado)]
              /\ pc' = [pc EXCEPT ![p] = "done"]
    /\ UNCHANGED <<db, now, ticks, serie, fallas, rastro, titular>>

\* reservar_boleto, lines 114-125: the commit and the answer, or the failed
\* commit, the rollback and status 500.
ReservarCommit(p) ==
    /\ pc[p] = "reservar_commit"
    /\ LET b == req[p].boleto
           pendiente == [db EXCEPT ![b.id] = Flush(@, b, Reservado(b, req[p].tiempo_limite))]
       IN
         \/ /\ db' = pendiente
            /\ resp' = [resp EXCEPT ![p] = Respuesta(200, "RESERVADO")]
            /\ titular' = [titular EXCEPT ![b.id] = IF rastro THEN p ELSE @]
         \/ /\ fallas
            /\ db' = rollback(db, pendiente)
            /\ resp' = [resp EXCEPT ![p] = Respuesta(500, "")]
            /\ UNCHANGED titular
    /\ pc' = [pc EXCEPT ![p] = "done"]
    /\ UNCHANGED <<now, ticks, req, serie, fallas, rastro>>

\* comprar_boleto, lines 139-149 and 161-166: no sweep, no clock.
ComprarConsultar(p, nombre) ==
    /\ Admite(p)
    /\ LET i == first(db, nombre)
           r == Peticion("comprar", nombre)
       IN
         IF i = 0
         THEN /\ req' = [req EXCEPT ![p] = r]
              /\ resp' = [resp EXCEPT ![p] = Respuesta(404, "")]
              /\ pc' = [pc EXCEPT ![p] = "done"]
         ELSE IF comprable(db[i], now)
         THEN /\ req' = [req EXCEPT ![p] = [r EXCEPT !.boleto = db[i],
                                                     !.titular = titular[i]]]
              /\ pc' = [pc EXCEPT ![p] = "comprar_commit"]
              /\ UNCHANGED resp
         ELSE /\ req' = [req EXCEPT ![p] = [r EXCEPT !.boleto = db[i],
                                                     !.titular = titular[i]]]
              /\ resp' = [resp EXCEPT ![p] = Respuesta(409, db[i].estado)]
              /\ pc' = [pc EXCEPT ![p] = "done"]
    /\ UNCHANGED <<db, now, ticks, serie, fallas, rastro, titular>>

\* comprar_boleto, lines 150-159: the commit and the answer, or the failed
\* commit, the rollback and status 500.
ComprarCommit(p) ==
    /\ pc[p] = "comprar_commit"
    /\ LET b == req[p].boleto
           pendiente == [db EXCEPT ![b.id] = Flush(@, b, Vendido(b))]
       IN
         \/ /\ db' = pendiente
            /\ resp' = [resp EXCEPT ![p] = Respuesta(200, "VENDIDO")]
            /\ titular' = [titular EXCEPT ![b.id] = 0]
         \/ /\ fallas
            /\ db' = rollback(db, pendiente)
            /\ resp' = [resp EXCEPT ![p] = Respuesta(500, "")]
            /\ UNCHANGED titular
    /\ pc' = [pc EXCEPT ![p] = "done"]
    /\ UNCHANGED <<now, ticks, req, serie, fallas, rastro>>

\* The response leaves; the request's session and locals are dropped.
Responder(p) ==
    /\ pc[p] = "done"
    /\ pc' = [pc EXCEPT ![p] = "idle"]
    /\ req' = [req EXCEPT ![p] = SinPeticion]
    /\ resp' = [resp EXCEPT ![p] = SinRespuesta]
    /\ UNCHANGED <<db, now, ticks, serie, fallas, rastro, titular>>

Next ==
    \/ Tick
    \/ \E p \in Procs : GetBoletosInicio(p)
    \/ \E p \in Procs, nombre \in Nombres : ReservarInicio(p, nombre)
    \/ \E p \in Procs, nombre \in Nombres : ComprarConsultar(p, nombre)
    \/ \E p \in Procs : LiberarCommit(p)
    \/ \E p \in Procs : GetBoletosListar(p)
    \/ \E p \in Procs : ReservarConsultar(p)
    \/ \E p \in Procs : ReservarCommit(p)
    \/ \E p \in Procs : ComprarCommit(p)
    \/ \E p \in Procs : Responder(p)

Spec == Init /\ [][Next]_vars

SerialSpec == SerialInit /\ [][Next]_vars

FallaSpec == FallaInit /\ [][Next]_vars

TitularSpec == TitularInit /\ [][Next]_vars

\* A list or a reserve call arrives.
LlegaBarrido ==
    \/ \E p \in Procs : GetBoletosInicio(p)
    \/ \E p \in Procs, nombre \in Nombres : ReservarInicio(p, nombre)

\* A request in flight takes its next step.
Avanza ==
    \/ \E p \in Procs : LiberarCommit(p)
    \/ \E p \in Procs : GetBoletosListar(p)
    \/ \E p \in Procs : ReservarConsultar(p)
    \/ \E p \in Procs : ReservarCommit(p)
    \/ \E p \in Procs : ComprarCommit(p)
    \/ \E p \in Procs : Responder(p)

\* Requests served one at a time; every request in flight is served to its
\* end, and list or reserve calls keep arriving.
FairSpec == SerialSpec /\ WF_vars(Avanza) /\ SF_vars(LlegaBarrido)

\* ================================================================ claims

\* Request slot p holds the finished response of an operacion request.
Hecho(p, operacion) == pc[p] = "done" /\ req[p].op = operacion

\* The row the table holds for id i, with another state and limit.
Fila(i, est, lim) == Boleto(i, Asiento(i), est, lim)

\* C1: of the reserve requests racing for one seat exactly one succeeds: no
\* two requests both hold a successful reserve response for the same seat
\* with both holds still unexpired (two holders of one seat).
C1_UnSoloTitular ==
    \A p \in Procs, q \in Procs :
        (/\ p # q
         /\ Hecho(p, "reservar") /\ Hecho(q, "reservar")
         /\ req[p].nombre = req[q].nombre
         /\ resp[p].code = 200 /\ resp[q].code = 200)
        => ~(req[p].tiempo_limite >= now /\ req[q].tiempo_limite >= now)

\* C2: in every reachable state every row has tiempo_limite > 0 when it is
\* RESERVADO and tiempo_limite = 0 when it is not.
C2_LimiteSiiReservado ==
    \A i \in Ids :
        /\ db[i].estado = "RESERVADO" => db[i].tiempo_limite > 0
        /\ db[i].estado # "RESERVADO" => db[i].tiempo_limite = 0

\* C2 witness: a sweep has just released a row while another row is sold.
C2_Witness ==
    \E i \in Ids, j \in Ids, p \in Procs :
        /\ pc[p] \in {"consultar", "listar"}
        /\ req[p].antes[i].estado = "RESERVADO" /\ req[p].antes[i].tiempo_limite > 0
        /\ db[i] = Fila(i, "DISPONIBLE", 0)
        /\ db[j] = Fila(j, "VENDIDO", 0)

\* C3: VENDIDO is absorbing: no step takes a row out of VENDIDO.
C3_VendidoAbsorbente ==
    [][\A i \in Ids : db[i].estado = "VENDIDO" => db'[i].estado = "VENDIDO"]_vars

\* C4: a reserve of a DISPONIBLE seat made when the clock reads T answers 200
\* and leaves the row RESERVADO with tiempo_limite = T + 30; a reserve that
\* arrives while the seat is RESERVADO and sweeps at a time before the limit
\* answers 409 RESERVADO and leaves the row, limit included, as it was.
C4_ReservaYConflicto ==
    \A p \in Procs, i \in Ids :
        (Hecho(p, "reservar") /\ req[p].nombre = Asiento(i)) =>
            /\ req[p].antes[i].estado = "DISPONIBLE" =>
                 /\ resp[p] = Respuesta(200, "RESERVADO")
                 /\ req[p].llegada <= req[p].t_reserva /\ req[p].t_reserva <= now
                 /\ db[i] = Fila(i, "RESERVADO", req[p].t_reserva + RESERVA_DURACION_SEGUNDOS)
            /\ (/\ req[p].antes[i].estado = "RESERVADO"
                /\ req[p].ahora < req[p].antes[i].tiempo_limite) =>
                 /\ resp[p] = Respuesta(409, "RESERVADO")
                 /\ db[i] = req[p].antes[i]

\* C4 witness: a second reserve, later on the clock than the first and before
\* its limit, has been refused.
C4_Witness ==
    \E p \in Procs, i \in Ids :
        /\ Hecho(p, "reservar") /\ req[p].nombre = Asiento(i)
        /\ req[p].antes[i].estado = "RESERVADO"
        /\ req[p].antes[i].tiempo_limite - RESERVA_DURACION_SEGUNDOS < req[p].ahora
        /\ req[p].ahora < req[p].antes[i].tiempo_limite
        /\ resp[p].code = 409

\* C5: a sweep whose clock reads T' sets to DISPONIBLE, limit 0, exactly the
\* rows that were RESERVADO with tiempo_limite < T'; a RESERVADO row with
\* T' <= tiempo_limite and every DISPONIBLE or VENDIDO row is as it was.
C5_BarridoExacto ==
    \A p \in Procs :
        pc[p] \in {"consultar", "listar"} =>
            \A i \in Ids :
                db[i] = IF /\ req[p].antes[i].estado = "RESERVADO"
                           /\ req[p].antes[i].tiempo_limite < req[p].ahora
                        THEN Fila(i, "DISPONIBLE", 0)
                        ELSE req[p].antes[i]

\* C5 witness: one sweep released a row past its limit and kept a row whose
\* limit equals the sweep's clock.
C5_Witness ==
    \E p \in Procs, i \in Ids, j \in Ids :
        /\ pc[p] \in {"consultar", "listar"}
        /\ req[p].antes[i].estado = "RESERVADO"
        /\ req[p].antes[i].tiempo_limite < req[p].ahora
        /\ db[i].estado = "DISPONIBLE"
        /\ req[p].antes[j].estado = "RESERVADO"
        /\ req[p].antes[j].tiempo_limite = req[p].ahora
        /\ db[j].estado = "RESERVADO"

C7_ListaSinVencidos ==
    \A p \in Procs :
        Hecho(p, "get_boletos") =>
            \A i \in Ids :
                /\ resp[p].boletos[i] = to_dict(req[p].vistos[i])
                /\ resp[p].boletos[i].estado = "RESERVADO" =>
                       req[p].vistos[i].tiempo_limite >= req[p].ahora

\* C7 witness: a listing that found one hold past its limit and one live
\* hold shows the first as DISPONIBLE and the second as RESERVADO.
C7_Witness ==
    \E p \in Procs, i \in Ids, j \in Ids :
        /\ Hecho(p, "get_boletos")
        /\ req[p].antes[i].estado = "RESERVADO"
        /\ req[p].antes[i].tiempo_limite < req[p].ahora
        /\ resp[p].boletos[i].estado = "DISPONIBLE"
        /\ resp[p].boletos[j].estado = "RESERVADO"

\* C8 as stated: a reserve at time T of a seat RESERVADO with limit < T
\* answers 200 and leaves the row RESERVADO with tiempo_limite = T + 30.
C8_ReReservaLimiteExacto ==
    \A p \in Procs, i \in Ids :
        (/\ Hecho(p, "reservar") /\ req[p].nombre = Asiento(i)
         /\ req[p].antes[i].estado = "RESERVADO"
         /\ req[p].antes[i].tiempo_limite < req[p].ahora) =>
            /\ resp[p] = Respuesta(200, "RESERVADO")
            /\ db[i] = Fila(i, "RESERVADO", req[p].ahora + RESERVA_DURACION_SEGUNDOS)

\* C8 amended: a reserve whose sweep reads the clock at T, of a seat
\* RESERVADO with limit < T, answers 200 (never 409) and leaves the row
\* RESERVADO with tiempo_limite = T2 + 30, where T2 >= T is the clock when
\* the handler reads it again to make the reservation.
C8_ReReserva ==
    \A p \in Procs, i \in Ids :
        (/\ Hecho(p, "reservar") /\ req[p].nombre = Asiento(i)
         /\ req[p].antes[i].estado = "RESERVADO"
         /\ req[p].antes[i].tiempo_limite < req[p].ahora) =>
            /\ resp[p] = Respuesta(200, "RESERVADO")
            /\ req[p].ahora <= req[p].t_reserva /\ req[p].t_reserva <= now
            /\ db[i] = Fila(i, "RESERVADO", req[p].t_reserva + RESERVA_DURACION_SEGUNDOS)

\* C8 witness: a hold made at StartTime has been replaced, one second after
\* its limit, by a new reservation.
C8_Witness ==
    \E p \in Procs, i \in Ids :
        /\ Hecho(p, "reservar") /\ req[p].nombre = Asiento(i)
        /\ req[p].antes[i] = Fila(i, "RESERVADO", StartTime + RESERVA_DURACION_SEGUNDOS)
        /\ req[p].ahora = req[p].antes[i].tiempo_limite + 1
        /\ resp[p].code = 200
        /\ db[i].estado = "RESERVADO" /\ db[i].tiempo_limite > req[p].antes[i].tiempo_limite

\* C9: of the purchase requests racing for one RESERVADO seat at most one
\* succeeds: no two requests both hold a 200 VENDIDO response for one seat.
C9_UnaSolaVenta ==
    \A p \in Procs, q \in Procs :
        (/\ p # q
         /\ Hecho(p, "comprar") /\ Hecho(q, "comprar")
         /\ req[p].nombre = req[q].nombre)
        => ~(resp[p].code = 200 /\ resp[q].code = 200)

\* C10: a reserve or a purchase that names a seat no row carries answers 404
\* and never reaches a commit, whatever the table and the clock are.
C10_NoEncontrado ==
    \A p \in Procs :
        (/\ req[p].op \in {"reservar", "comprar"}
         /\ \A i \in Ids : db[i].asiento # req[p].nombre) =>
            /\ pc[p] \notin {"reservar_commit", "comprar_commit"}
            /\ pc[p] = "done" => resp[p] = Respuesta(404, "")

\* C10 witness: an unknown name was answered 404 while one row is sold and
\* another holds a reservation past its limit.
C10_Witness ==
    \E p \in Procs, i \in Ids, j \in Ids :
        /\ pc[p] = "done" /\ req[p].op \in {"reservar", "comprar"}
        /\ req[p].nombre = Desconocido
        /\ resp[p].code = 404
        /\ db[i].estado = "VENDIDO"
        /\ db[j].estado = "RESERVADO" /\ db[j].tiempo_limite < now

\* The row an expiry sweep whose clock reads t leaves in place of fila.
TrasBarrido(fila, t) ==
    IF fila.estado = "RESERVADO" /\ fila.tiempo_limite < t
    THEN [fila EXCEPT !.estado = "DISPONIBLE", !.tiempo_limite = 0]
    ELSE fila

\* C11 as stated: a reserve or a purchase answered 409 leaves every row as
\* it was when the request arrived, and the estado it carries is the named
\* row's stored estado (RESERVADO or VENDIDO for a reserve, DISPONIBLE or
\* VENDIDO for a purchase).
C11_ConflictoSinCambios ==
    \A p \in Procs, i \in Ids :
        (/\ pc[p] = "done" /\ req[p].op \in {"reservar", "comprar"}
         /\ req[p].nombre = Asiento(i) /\ resp[p].code = 409) =>
            /\ db = req[p].antes
            /\ resp[p].estado = db[i].estado
            /\ resp[p].estado \in (IF req[p].op = "reservar"
                                   THEN {"RESERVADO", "VENDIDO"}
                                   ELSE {"DISPONIBLE", "VENDIDO"})

\* C11 amended: a purchase answered 409 leaves every row as it was; a
\* reserve answered 409 leaves the named row as it was and every other row
\* as the reserve's own expiry sweep leaves it; the estado carried is the
\* named row's stored estado, from the same two sets.
C11_ConflictoSoloBarre ==
    \A p \in Procs, i \in Ids :
        (/\ pc[p] = "done" /\ req[p].op \in {"reservar", "comprar"}
         /\ req[p].nombre = Asiento(i) /\ resp[p].code = 409) =>
            /\ db[i] = req[p].antes[i]
            /\ \A j \in Ids \ {i} :
                   db[j] = IF req[p].op = "reservar"
                           THEN TrasBarrido(req[p].antes[j], req[p].ahora)
                           ELSE req[p].antes[j]
            /\ resp[p].estado = db[i].estado
            /\ resp[p].estado \in (IF req[p].op = "reservar"
                                   THEN {"RESERVADO", "VENDIDO"}
                                   ELSE {"DISPONIBLE", "VENDIDO"})

\* C11 witness: a reserve of a sold seat was answered 409 after its sweep
\* released the expired hold of another seat.
C11_Witness ==
    \E p \in Procs, i \in Ids, j \in Ids :
        /\ Hecho(p, "reservar") /\ req[p].nombre = Asiento(i)
        /\ resp[p] = Respuesta(409, "VENDIDO")
        /\ req[p].antes[j].estado = "RESERVADO"
        /\ db[j].estado = "DISPONIBLE"

C13_ReservaNoTocaOtros ==
    \A p \in Procs :
        Hecho(p, "reservar") =>
            \A j \in Ids : Asiento(j) # req[p].nombre => db[j] = req[p].antes[j]

\* C13 amended: a reserve sweeps the whole table, as a listing does: every
\* row other than the named one that was RESERVADO with limit below the
\* sweep's clock is DISPONIBLE with limit 0 afterwards, and the others are as
\* they were; a purchase leaves every other row as it was.
C13_ReservaBarreTodo ==
    \A p \in Procs, j \in Ids :
        /\ (Hecho(p, "reservar") /\ Asiento(j) # req[p].nombre) =>
               db[j] = TrasBarrido(req[p].antes[j], req[p].ahora)
        /\ Hecho(p, "get_boletos") =>
               db[j] = TrasBarrido(req[p].antes[j], req[p].ahora)
        /\ (Hecho(p, "comprar") /\ Asiento(j) # req[p].nombre) =>
               db[j] = req[p].antes[j]

\* C13 witness: a successful reserve of one seat released the expired hold
\* of another.
C13_Witness ==
    \E p \in Procs, i \in Ids, j \in Ids :
        /\ Hecho(p, "reservar") /\ req[p].nombre = Asiento(i) /\ i # j
        /\ resp[p].code = 200
        /\ req[p].antes[j].estado = "RESERVADO"
        /\ req[p].antes[j].tiempo_limite < req[p].ahora
        /\ db[j] = Fila(j, "DISPONIBLE", 0)

\* C14: every change of a row's estado is DISPONIBLE -> RESERVADO by a
\* reserve commit, RESERVADO -> VENDIDO by a purchase commit, or RESERVADO ->
\* DISPONIBLE by a sweep commit of a row whose current limit has passed.
C14_SoloTresAristas ==
    [][\A i \in Ids :
          db'[i].estado # db[i].estado =>
              \/ /\ db[i].estado = "DISPONIBLE" /\ db'[i].estado = "RESERVADO"
                 /\ \E p \in Procs : pc[p] = "reservar_commit" /\ pc'[p] = "done"
              \/ /\ db[i].estado = "RESERVADO" /\ db'[i].estado = "VENDIDO"
                 /\ \E p \in Procs : pc[p] = "comprar_commit" /\ pc'[p] = "done"
              \/ /\ db[i].estado = "RESERVADO" /\ db'[i].estado = "DISPONIBLE"
                 /\ db[i].tiempo_limite < now
                 /\ \E p \in Procs : pc[p] = "liberar_commit" /\ pc'[p] # "liberar_commit"]_vars

\* The sweep run in one piece on tabla with the clock at t.
Barrido(tabla, t) ==
    LET sel == boletos_expirados(tabla, t) IN
        [i \in DOMAIN tabla |->
            IF \E b \in sel : b.id = i
            THEN Flush(tabla[i], CHOOSE b \in sel : b.id = i,
                       Liberado(CHOOSE b \in sel : b.id = i))
            ELSE tabla[i]]

\* C15: right after a sweep whose clock read T, a second sweep run with the
\* same T selects no row and leaves the table as the first run left it.
C15_BarridoIdempotente ==
    \A p \in Procs :
        pc[p] \in {"consultar", "listar"} =>
            /\ boletos_expirados(db, req[p].ahora) = {}
            /\ Barrido(db, req[p].ahora) = db

\* C15 witness: the first run released a row.
C15_Witness ==
    \E p \in Procs, i \in Ids :
        /\ pc[p] \in {"consultar", "listar"}
        /\ req[p].antes[i].estado = "RESERVADO"
        /\ db[i] = Fila(i, "DISPONIBLE", 0)
        /\ req[p].antes # db

\* C17: the table starts with NumBoletos rows named A1..An, pairwise
\* distinct, all DISPONIBLE with limit 0, and in every later state it has
\* the same rows with the same ids and names.
C17_InventarioFijo ==
    /\ DOMAIN db = 1 .. NumBoletos
    /\ \A i \in DOMAIN db :
           db[i] = [id |-> i, asiento |-> <<"A", i>>, estado |-> "DISPONIBLE",
                    tiempo_limite |-> 0]
    /\ [](/\ DOMAIN db = 1 .. NumBoletos
          /\ \A i \in DOMAIN db : db[i].id = i /\ db[i].asiento = <<"A", i>>
          /\ \A i \in DOMAIN db, j \in DOMAIN db :
                 i # j => db[i].asiento # db[j].asiento)

\* C17 witness: a reservation, a release and a sale have been written and
\* every row still carries its name.
C17_Witness ==
    \E i \in Ids, j \in Ids, p \in Procs :
        /\ db[i].estado = "VENDIDO" /\ db[i].asiento = <<"A", i>>
        /\ db[j].estado = "RESERVADO" /\ db[j].asiento = <<"A", j>>
        /\ db[j].tiempo_limite > StartTime + RESERVA_DURACION_SEGUNDOS + 1
        /\ pc[p] = "idle"

\* C18 as stated: a purchase succeeds only for the client whose reserve made
\* the hold the seat is under: the slot that receives a successful purchase
\* response is the holder recorded for the row it loaded.
C18_CompraDelTitular ==
    \A p \in Procs :
        (Hecho(p, "comprar") /\ resp[p].code = 200) => req[p].titular = p

\* C18 amended: a purchase of an existing seat succeeds exactly when the row
\* it loaded is RESERVADO, whoever made the hold; the sale ends the hold, so
\* a hold is turned into a sale at most once, and only RESERVADO rows are
\* under a hold.
C18_CompraSinTitular ==
    /\ \A p \in Procs, i \in Ids :
           (Hecho(p, "comprar") /\ req[p].nombre = Asiento(i)) =>
               /\ resp[p].code = 200 <=> req[p].boleto.estado = "RESERVADO"
               /\ resp[p].code = 200 =>
                      /\ db[i] = Fila(i, "VENDIDO", 0)
                      /\ req[p].titular \in Procs
                      /\ titular[i] = 0
               /\ resp[p].code # 200 =>
                      /\ resp[p] = Respuesta(409, db[i].estado)
                      /\ db[i] = req[p].boleto
    /\ \A i \in Ids : titular[i] # 0 <=> db[i].estado = "RESERVADO"

\* C18 witness: a purchase succeeded for a client other than the one whose
\* reserve made the hold, on a hold made after the clock had passed the
\* limit of a hold made at the start.
C18_Witness ==
    \E p \in Procs, i \in Ids :
        /\ Hecho(p, "comprar") /\ req[p].nombre = Asiento(i)
        /\ resp[p] = Respuesta(200, "VENDIDO")
        /\ req[p].titular \in Procs \ {p}
        /\ req[p].boleto.tiempo_limite >
               StartTime + 2 * RESERVA_DURACION_SEGUNDOS
        /\ db[i].estado = "VENDIDO"

\* Row i is RESERVADO and the clock has passed its limit.
Vencido(i) == db[i].estado = "RESERVADO" /\ db[i].tiempo_limite < now

\* C16: a list or reserve call that arrives when a row is RESERVADO with its
\* limit below the clock leaves the row out of that hold (DISPONIBLE with
\* limit 0, or under the new hold the same reserve call made); and, with
\* list or reserve calls arriving again and again, every row that is
\* RESERVADO with its limit passed eventually is DISPONIBLE or VENDIDO: from
\* a table with such rows a table with none is always reached, and the step
\* that takes a row out of that condition makes it DISPONIBLE or VENDIDO.
\* No step other than a request's changes the table.
C16_ExpiracionPerezosa ==
    /\ [](\A p \in Procs, i \in Ids :
             (/\ pc[p] = "done" /\ req[p].op \in {"get_boletos", "reservar"}
              /\ req[p].antes[i].estado = "RESERVADO"
              /\ req[p].antes[i].tiempo_limite < req[p].ahora) =>
                 \/ db[i] = Fila(i, "DISPONIBLE", 0)
                 \/ /\ req[p].op = "reservar" /\ req[p].nombre = Asiento(i)
                    /\ resp[p].code = 200
                    /\ db[i] = Fila(i, "RESERVADO", req[p].tiempo_limite)
                    /\ req[p].tiempo_limite > req[p].antes[i].tiempo_limite)
    /\ (\E i \in Ids : Vencido(i)) ~> (\A i \in Ids : ~Vencido(i))
    /\ [][\A i \in Ids :
             (Vencido(i) /\ ~Vencido(i)') =>
                 db'[i].estado \in {"DISPONIBLE", "VENDIDO"}]_vars
    /\ [][db' # db => \E p \in Procs : pc'[p] # pc[p]]_vars

\* C16 witness: two holds had passed their limits when a list call arrived,
\* and the call has released both.
C16_Witness ==
    \E p \in Procs :
        /\ Hecho(p, "get_boletos")
        /\ \A i \in Ids :
               /\ req[p].antes[i].estado = "RESERVADO"
               /\ req[p].antes[i].tiempo_limite < req[p].llegada
               /\ db[i] = Fila(i, "DISPONIBLE", 0)

====
